---- MODULE Spec2Model ----
(***************************************************************************)
(* Model of the log-ingestion core of superlogs (src/server/supervisor.ts): *)
(* the line parsers, the forward and backward windowed readers and the      *)
(* tail differ, over one log file that writers append to.                   *)
(*                                                                          *)
(* A string is modelled as a sequence of lexemes.  A lexeme is a piece of   *)
(* text that the regular expressions and substring tests of the source      *)
(* treat as a unit: a newline, a run of blanks, a timestamp, a word.        *)
(***************************************************************************)
EXTENDS Integers, Sequences, FiniteSets, TLC

\* ------------------------------------------------------------------ bounds
MaxFileLines == 3   \* most lines written to the log file
MaxLimit == 2       \* largest limit / maxLines / lines a caller passes

\* ------------------------------------------------------------ lexemes
NL == "\n"
Whitespace == {" "}

IsoStamps == {"2024-12-12T07:00:00"}
SpaceStamps == {"2024-12-10 08:00:01", "2024-12-11 09:30:00"}
SyslogStamps == {"Dec 10 08:00:01"}
DotFraction == {".234"}
CommaFraction == {",234"}
Zone == {"Z"}

\* String.prototype.toLowerCase on one lexeme
toLowerCase(tok) ==
  CASE tok = "ERROR" -> "error"
    [] tok = "WARNING" -> "warning"
    [] tok = "INFO" -> "info"
    [] tok = "DEBUG" -> "debug"
    [] tok = "CRITICAL" -> "critical"
    [] tok = "BOOM" -> "boom"
    [] tok = "NOTICE" -> "notice"
    [] tok = "\"ERROR\"" -> "\"error\""
    [] OTHER -> tok

\* the lower-case strings that occur inside a lower-case lexeme
\* (String.prototype.includes looks for these)
Substrings(tok) ==
  CASE tok = "warning" -> {"warning", "warn"}
    [] tok = "traceback" -> {"traceback", "trace"}
    [] tok = "#0" -> {"#0", "#"}
    [] tok = "\"error\"" -> {tok, "error"}
    [] tok = "\"warn\"" -> {tok, "warn"}
    [] tok = "\"boom\"" -> {tok, "boom"}
    [] tok = "\"2024-12-10 08:00:01\"" -> {tok, "2024-12-10 08:00:01", "2024-12-10"}
    [] tok = "2024-12-10 08:00:01" -> {tok, "2024-12-10"}
    [] tok = "2024-12-11 09:30:00" -> {tok, "2024-12-11"}
    [] OTHER -> {tok}

\* line.toLowerCase().includes(needle), needle already lower-case
includes(line, needle) ==
  \E i \in DOMAIN line : needle \in Substrings(toLowerCase(line[i]))

\* ------------------------------------------------------- string helpers
\* the position of the k-th newline of s; 0 for k = 0, Len(s) + 1 past the last
Newline(s, k) ==
  LET nl == {i \in DOMAIN s : s[i] = NL}
  IN IF k = 0 THEN 0
     ELSE IF k > Cardinality(nl) THEN Len(s) + 1
     ELSE CHOOSE i \in nl : Cardinality({j \in nl : j <= i}) = k

\* String.prototype.split('\n'): the pieces between newlines, "" gives [""]
split(s) ==
  [k \in 1..(Cardinality({i \in DOMAIN s : s[i] = NL}) + 1) |->
     SubSeq(s, Newline(s, k - 1) + 1, Newline(s, k) - 1)]

\* String.prototype.trim: blanks removed at both ends
trim(s) ==
  LET solid == {i \in DOMAIN s : s[i] \notin Whitespace}
  IN IF solid = {} THEN <<>>
     ELSE SubSeq(s, CHOOSE i \in solid : \A j \in solid : i <= j,
                    CHOOSE i \in solid : \A j \in solid : j <= i)

\* an absent optional value (undefined, null) is the empty sequence,
\* a present one is a sequence of one element
undefined == <<>>


\* ------------------------------------------------------------- parsing
Levels == {"error", "warning", "info", "debug"}
LogTemplate == {"default", "laravel", "fastapi"}

\* lexemes that match \w+
Words == {"production", "local", "uvicorn", "app", "boom", "BOOM", "ok",
          "ERROR", "error", "WARNING", "warning", "warn", "INFO", "info",
          "DEBUG", "debug", "CRITICAL", "critical", "NOTICE", "notice",
          "alert", "emergency", "fatal", "exception", "trace", "traceback"}
\* lexemes that match #\d+
FrameMarks == {"#0"}

\* the entry every parser starts from
NewEntry(line, lineNumber) ==
  [timestamp |-> undefined, level |-> "info", message |-> line,
   lineNumber |-> lineNumber, raw |-> line]

\* length of the longest prefix of s made of lexemes of set S
Run(s, S) ==
  LET other == {i \in DOMAIN s : s[i] \notin S}
  IN IF other = {} THEN Len(s)
     ELSE (CHOOSE i \in other : \A j \in other : i <= j) - 1

At(s, i) == IF i \in DOMAIN s THEN s[i] ELSE ""
From(s, i) == SubSeq(s, i, Len(s))

\* timestampPatterns of the default parser: the length of the match of
\* pattern k at the start of the line, 0 when it does not match
timestampPatterns(k, line) ==
  CASE k = 1 ->
         IF At(line, 1) \in IsoStamps
         THEN LET f == IF At(line, 2) \in DotFraction THEN 1 ELSE 0
                  z == IF At(line, 2 + f) \in Zone THEN 1 ELSE 0
              IN 1 + f + z
         ELSE 0
    [] k = 2 ->
         IF At(line, 1) \in SpaceStamps
         THEN (IF At(line, 2) \in DotFraction THEN 2 ELSE 1)
         ELSE 0
    [] k = 3 ->
         IF At(line, 1) \in SpaceStamps /\ At(line, 2) \in CommaFraction
         THEN 2 ELSE 0
    [] k = 4 -> IF At(line, 1) \in SyslogStamps THEN 1 ELSE 0

\* the level with the warning test ahead of the error test
DefaultLevelWarnFirst(line) ==
  IF includes(line, "warn") \/ includes(line, "warning") THEN "warning"
  ELSE IF includes(line, "error") \/ includes(line, "exception")
          \/ includes(line, "fatal") \/ includes(line, "critical") THEN "error"
  ELSE IF includes(line, "debug") \/ includes(line, "trace") THEN "debug"
  ELSE "info"

\* the level the default parser infers from the whole line
DefaultLevel(line) ==
  IF includes(line, "error") \/ includes(line, "exception")
     \/ includes(line, "fatal") \/ includes(line, "critical") THEN "error"
  ELSE IF includes(line, "warn") \/ includes(line, "warning") THEN "warning"
  ELSE IF includes(line, "debug") \/ includes(line, "trace") THEN "debug"
  ELSE "info"

\* the length of the match of the first pattern that matches, 0 if none
\* (for ... if (match) ... break)
FirstMatch(line) ==
  IF timestampPatterns(1, line) > 0 THEN timestampPatterns(1, line)
  ELSE IF timestampPatterns(2, line) > 0 THEN timestampPatterns(2, line)
  ELSE IF timestampPatterns(3, line) > 0 THEN timestampPatterns(3, line)
  ELSE timestampPatterns(4, line)

\* the entry after the pattern loop, n the length of the match
DefaultStamped(entry, line, n) ==
  IF n = 0 THEN entry
  ELSE [entry EXCEPT !.timestamp = SubSeq(line, 1, n),
                     !.message = trim(From(line, n + 1))]

\* logParsers.default
ParseDefault(line, lineNumber) ==
  [DefaultStamped(NewEntry(line, lineNumber), line, FirstMatch(line))
     EXCEPT !.level = DefaultLevel(line)]

\* the switch without the cases emergency, alert and critical
LaravelLevelErrorOnly(levelStr) ==
  CASE levelStr = "error" -> "error"
    [] levelStr = "warning" -> "warning"
    [] levelStr = "debug" -> "debug"
    [] OTHER -> "info"

\* the switch of the laravel parser over the lower-case level token
LaravelLevel(levelStr) ==
  CASE levelStr \in {"emergency", "alert", "critical", "error"} -> "error"
    [] levelStr = "warning" -> "warning"
    [] levelStr \in {"notice", "info"} -> "info"
    [] levelStr = "debug" -> "debug"
    [] OTHER -> "info"

\* the rest of laravelPattern from the environment word at position e
LaravelTail(line, e) ==
  IF /\ At(line, e) \in Words
     /\ At(line, e + 1) = "."
     /\ At(line, e + 2) \in Words
     /\ At(line, e + 3) = ":"
  THEN <<e + 2, e + 4 + Run(From(line, e + 4), Whitespace)>>
  ELSE <<0, 0>>

\* laravelPattern: [stamp] env.LEVEL: message
\* <<position of the LEVEL lexeme, position of the message>>, <<0, 0>> if none
laravelPattern(line) ==
  IF /\ At(line, 1) = "["
     /\ At(line, 2) \in SpaceStamps
     /\ At(line, 3) = "]"
     /\ At(line, 4) \in Whitespace
  THEN LaravelTail(line, 5 + Run(From(line, 5), Whitespace))
  ELSE <<0, 0>>

\* the entry of the laravel parser, match the result of laravelPattern
LaravelEntry(entry, line, match) ==
  IF match[1] > 0
  THEN [entry EXCEPT !.timestamp = <<line[2]>>,
                     !.message = From(line, match[2]),
                     !.level = LaravelLevel(toLowerCase(line[match[1]]))]
  ELSE IF includes(line, "exception") \/ includes(line, "error")
          \/ includes(line, "fatal")
       THEN [entry EXCEPT !.level = "error"]
       ELSE IF includes(line, "#")
               /\ At(line, Run(line, Whitespace) + 1) \in FrameMarks
            THEN [entry EXCEPT !.level = "error"]
            ELSE entry

\* logParsers.laravel
ParseLaravel(line, lineNumber) ==
  LaravelEntry(NewEntry(line, lineNumber), line, laravelPattern(line))

\* the switch of the fastapi parser over the lower-case level token
\* (uvicorn and Python-logging branches)
FastapiLevel(levelStr) ==
  CASE levelStr \in {"error", "critical"} -> "error"
    [] levelStr = "warning" -> "warning"
    [] levelStr = "debug" -> "debug"
    [] OTHER -> "info"

\* INFO|WARNING|ERROR|DEBUG|CRITICAL, case-insensitive
IsPyLevel(tok) ==
  toLowerCase(tok) \in {"info", "warning", "error", "debug", "critical"}

\* uvicornSimple: LEVEL:<blanks>message
\* the position of the first lexeme of the message, 0 when no match
uvicornSimple(line) ==
  IF IsPyLevel(At(line, 1)) /\ At(line, 2) = ":" /\ At(line, 3) \in Whitespace
  THEN 3 + Run(From(line, 3), Whitespace)
  ELSE 0

\* the position after the blanks that start at i
SkipBlanks(line, i) == i + Run(From(line, i), Whitespace)

\* m if blanks were skipped between j and m, else 0
IfBlanks(j, m) == IF m > j THEN m ELSE 0

\* the separator from its dash at d, blanks having started at i
DashAt(line, i, d) ==
  IF i > 0 /\ d > i /\ At(line, d) = "-"
  THEN IfBlanks(d + 1, SkipBlanks(line, d + 1))
  ELSE 0

\* position after the separator <blanks>-<blanks> that starts at i, 0 if none
Dash(line, i) == DashAt(line, i, SkipBlanks(line, i))

\* the message after the LEVEL lexeme at lv, ms where it would start
PyMessage(lv, ms) == IF ms > 0 THEN <<lv, ms>> ELSE <<0, 0>>

\* the LEVEL lexeme at lv
PyLevel(line, lv) ==
  IF lv > 0 /\ IsPyLevel(At(line, lv))
  THEN PyMessage(lv, Dash(line, lv + 1))
  ELSE <<0, 0>>

\* the logger name [\w.]+ from lg to before e
PyLogger(line, lg, e) ==
  IF lg > 0 /\ e > lg THEN PyLevel(line, Dash(line, e)) ELSE <<0, 0>>

\* the logger name [\w.]+ from lg on
PyLoggerAt(line, lg) ==
  PyLogger(line, lg, lg + Run(From(line, lg), Words \cup {"."}))

\* pythonLogging: stamp,mmm - logger - LEVEL - message
\* <<position of the LEVEL lexeme, position of the message>>, <<0, 0>> if none
pythonLogging(line) ==
  IF At(line, 1) \in SpaceStamps /\ At(line, 2) \in CommaFraction
  THEN PyLoggerAt(line, Dash(line, 3))
  ELSE <<0, 0>>

\* JSON text: { "key" : value , ... } with string and number values
JsonKeys == {"\"timestamp\"", "\"time\"", "\"asctime\"", "\"message\"",
             "\"msg\"", "\"event\"", "\"level\"", "\"levelname\""}
JsonStrings == {"\"2024-12-10 08:00:01\"", "\"boom\"", "\"ERROR\"",
                "\"warn\"", "\"\""}
JsonNumbers == {"0", "40"}

\* the text of a JSON string lexeme, without its quotes
Unquote(tok) ==
  CASE tok = "\"timestamp\"" -> "timestamp"
    [] tok = "\"time\"" -> "time"
    [] tok = "\"asctime\"" -> "asctime"
    [] tok = "\"message\"" -> "message"
    [] tok = "\"msg\"" -> "msg"
    [] tok = "\"event\"" -> "event"
    [] tok = "\"level\"" -> "level"
    [] tok = "\"levelname\"" -> "levelname"
    [] tok = "\"2024-12-10 08:00:01\"" -> "2024-12-10 08:00:01"
    [] tok = "\"boom\"" -> "boom"
    [] tok = "\"ERROR\"" -> "ERROR"
    [] tok = "\"warn\"" -> "warn"
    [] tok = "\"\"" -> ""
    [] OTHER -> tok

SyntaxError == <<<<"SyntaxError", "">>>>

\* the members of the text between the braces, key : value separated by
\* commas: a sequence of <<key, value lexeme>>, or SyntaxError when it is not JSON
JsonMembers(s) ==
  LET n == (Len(s) + 1) \div 4
  IN IF /\ Len(s) = 4 * n - 1
        /\ \A m \in 1..n :
              /\ s[4 * m - 3] \in JsonKeys
              /\ s[4 * m - 2] = ":"
              /\ s[4 * m - 1] \in JsonStrings \cup JsonNumbers
              /\ m < n => s[4 * m] = ","
     THEN [m \in 1..n |-> <<Unquote(s[4 * m - 3]), s[4 * m - 1]>>]
     ELSE SyntaxError

\* JSON.parse of a line that starts with { and ends with }
JSONparse(line) ==
  IF Len(line) = 2 THEN <<>> ELSE JsonMembers(SubSeq(line, 2, Len(line) - 1))

\* json[key]: the value lexeme of the last member named key, "" if absent
Get(json, key) ==
  LET hits == {i \in DOMAIN json : json[i][1] = key}
  IN IF hits = {} THEN ""
     ELSE json[CHOOSE i \in hits : \A j \in hits : j <= i][2]

\* truthiness of a value lexeme: absent, "" and 0 are falsy
Truthy(v) == v \notin {"", "\"\"", "0"}

\* a || b || c || d over value lexemes
Or4(a, b, c, d) ==
  IF Truthy(a) THEN a ELSE IF Truthy(b) THEN b ELSE IF Truthy(c) THEN c ELSE d

\* the switch of the JSON branch over the lower-case level
JsonLevel(levelStr) ==
  CASE levelStr \in {"error", "critical", "fatal"} -> "error"
    [] levelStr \in {"warning", "warn"} -> "warning"
    [] levelStr = "debug" -> "debug"
    [] OTHER -> "info"

\* the fallback with warning as the level of a line without keywords
FastapiFallbackWarns(entry, line) ==
  IF includes(line, "error") \/ includes(line, "exception")
     \/ includes(line, "traceback") THEN [entry EXCEPT !.level = "error"]
  ELSE IF includes(line, "debug") THEN [entry EXCEPT !.level = "debug"]
  ELSE [entry EXCEPT !.level = "warning"]

\* the fallback of the fastapi parser: the level from the content
FastapiFallback(entry, line) ==
  IF includes(line, "error") \/ includes(line, "exception")
     \/ includes(line, "traceback") THEN [entry EXCEPT !.level = "error"]
  ELSE IF includes(line, "warning") THEN [entry EXCEPT !.level = "warning"]
  ELSE IF includes(line, "debug") THEN [entry EXCEPT !.level = "debug"]
  ELSE entry

\* entry.timestamp = json.timestamp || json.time || json.asctime || null
JsonTimestamp(v) == IF v = "" THEN undefined ELSE <<Unquote(v)>>
\* entry.message = json.message || json.msg || json.event || line
JsonMessage(v, line) == IF v = "" THEN line ELSE <<Unquote(v)>>

\* the two assignments before the level is read
JsonAssigned(entry, line, json) ==
  [entry EXCEPT
     !.timestamp = JsonTimestamp(Or4(Get(json, "timestamp"), Get(json, "time"),
                                     Get(json, "asctime"), "")),
     !.message = JsonMessage(Or4(Get(json, "message"), Get(json, "msg"),
                                 Get(json, "event"), ""), line)]

\* (json.level || json.levelname || 'info').toLowerCase() and the switch:
\* a number has no toLowerCase, the TypeError is caught
JsonSwitch(entry, lvl) ==
  IF lvl \in JsonNumbers
  THEN [done |-> FALSE, entry |-> entry]
  ELSE [done |-> TRUE,
        entry |-> [entry EXCEPT !.level = JsonLevel(toLowerCase(Unquote(lvl)))]]

\* the try block over the parsed json
JsonTry(entry, line, json) ==
  IF json = SyntaxError THEN [done |-> FALSE, entry |-> entry]
  ELSE JsonSwitch(JsonAssigned(entry, line, json),
                  Or4(Get(json, "level"), Get(json, "levelname"),
                      "\"info\"", "\"info\""))

\* the JSON branch: the entry as the try block leaves it, and whether the
\* block returned (done) or threw and was caught
JsonBranch(entry, line) == JsonTry(entry, line, JSONparse(line))

\* return entry if the try block returned, else go on to the fallback
JsonOrFallback(j, line) ==
  IF j.done THEN j.entry ELSE FastapiFallback(j.entry, line)

\* the branches without the return after the uvicorn match: the fallback
\* then sets the level from the keywords of the line
FastapiEntryNoReturn(entry, line, u, py) ==
  IF u > 0
  THEN FastapiFallback([entry EXCEPT !.message = From(line, u),
                                     !.level = FastapiLevel(toLowerCase(line[1]))],
                       line)
  ELSE IF py[1] > 0
  THEN [entry EXCEPT !.timestamp = SubSeq(line, 1, 2),
                     !.message = From(line, py[2]),
                     !.level = FastapiLevel(toLowerCase(line[py[1]]))]
  ELSE IF At(line, 1) = "{" /\ At(line, Len(line)) = "}"
  THEN JsonOrFallback(JsonBranch(entry, line), line)
  ELSE FastapiFallback(entry, line)

\* the branches of the fastapi parser, u and py the two pattern matches
FastapiEntry(entry, line, u, py) ==
  IF u > 0
  THEN [entry EXCEPT !.message = From(line, u),
                     !.level = FastapiLevel(toLowerCase(line[1]))]
  ELSE IF py[1] > 0
  THEN [entry EXCEPT !.timestamp = SubSeq(line, 1, 2),
                     !.message = From(line, py[2]),
                     !.level = FastapiLevel(toLowerCase(line[py[1]]))]
  ELSE IF At(line, 1) = "{" /\ At(line, Len(line)) = "}"
  THEN JsonOrFallback(JsonBranch(entry, line), line)
  ELSE FastapiFallback(entry, line)

\* logParsers.fastapi
ParseFastapi(line, lineNumber) ==
  FastapiEntry(NewEntry(line, lineNumber), line,
               uvicornSimple(line), pythonLogging(line))

\* logParsers is an object literal: besides its three own properties a
\* lookup finds what it inherits from Object.prototype.  Of those,
\* logParsers["constructor"] is the function Object, which called with a
\* string returns a String object, and logParsers["__proto__"] is the
\* prototype object, which cannot be called.
StringObject(line) == [object |-> "String", value |-> line]
TypeError == [threw |-> "TypeError"]

\* parseLogLine: logParsers[template] || logParsers.default, then the call;
\* a template that names no property falls back to the default parser
parseLogLine(line, lineNumber, template) ==
  CASE template = "laravel" -> ParseLaravel(line, lineNumber)
    [] template = "fastapi" -> ParseFastapi(line, lineNumber)
    [] template = "constructor" -> StringObject(line)
    [] template = "__proto__" -> TypeError
    [] OTHER -> ParseDefault(line, lineNumber)


\* ------------------------------------------------------------- dates
\* A Date is <<t>>, t in hours since 2024-12-01T00:00Z, or <<>> for an
\* Invalid Date.  The server's time zone is taken to be UTC.
InvalidDate == <<>>

StampHours(tok) ==
  CASE tok = "2024-12-10 08:00:01" -> 9 * 24 + 8
    [] tok = "2024-12-11 09:30:00" -> 10 * 24 + 9
    [] tok = "2024-12-12T07:00:00" -> 11 * 24 + 7
    [] tok = "2024-12-10" -> 9 * 24
    [] tok = "2024-12-11" -> 10 * 24
    [] tok = "2024-12-12" -> 11 * 24

\* new Date(string): the date-time forms with an optional .fff fraction and
\* zone parse; a ,mmm fraction and the year-less syslog form do not
NewDate(ts) ==
  IF /\ ts # <<>>
     /\ ts[1] \in IsoStamps \cup SpaceStamps \cup {"2024-12-10", "2024-12-11", "2024-12-12"}
     /\ \A i \in 2..Len(ts) : ts[i] \in DotFraction \cup Zone
  THEN <<StampHours(ts[1])>>
  ELSE InvalidDate

\* a < b on Dates: every comparison with an Invalid Date is false
DateLess(a, b) == a # InvalidDate /\ b # InvalidDate /\ a[1] < b[1]

\* ------------------------------------------------------------ filters
\* the filter statements shared by both readers: TRUE when the entry is kept
\* (supervisor.ts 830-837 and 984-991)
PassesFilters(entry, line, o) ==
  /\ ~(o.level # "all" /\ entry.level # o.level)
  /\ ~(o.search # undefined /\ ~includes(line, toLowerCase(o.search[1])))
  /\ \/ entry.timestamp = undefined
     \/ LET entryDate == NewDate(entry.timestamp)
        IN /\ ~(o.startDate # undefined /\ DateLess(entryDate, NewDate(o.startDate)))
           /\ ~(o.endDate # undefined /\ DateLess(NewDate(o.endDate), entryDate))

\* ------------------------------------------------------- file system
\* fs.existsSync: a file that cannot be read still exists
existsSync(file) == file.status # "absent"
\* fs.readFileSync throws on a file that cannot be read
readFileSyncThrows(file) == file.status # "file"

\* the search made in the extracted message instead of the line
PushIfKeptSearchesMessage(entry, line, entries, o) ==
  IF PassesFilters(entry, entry.message, o) THEN Append(entries, entry) ELSE entries

\* entries.push(entry) unless a filter statement continues
PushIfKept(entry, line, entries, o) ==
  IF PassesFilters(entry, line, o) THEN Append(entries, entry) ELSE entries

\* --------------------------------------------------------- readLogFile
\* one pass of the body of the for loop of readLogFile: the entries after it
ForwardBody(line, lineNumber, entries, o) ==
  IF trim(line) = <<>> THEN entries
  ELSE PushIfKept(parseLogLine(line, lineNumber, o.template), line, entries, o)

RECURSIVE ForwardLoopCountsScanned(_, _, _, _)
\* the loop with the budget spent on every line scanned, kept or not
ForwardLoopCountsScanned(lines, i, entries, o) ==
  IF i < Len(lines) /\ i - o.startLine < o.maxLines
  THEN ForwardLoopCountsScanned(lines, i + 1,
                                ForwardBody(lines[i + 1], i + 1, entries, o), o)
  ELSE entries

RECURSIVE ForwardLoop(_, _, _, _)
\* the for loop of readLogFile from index i (0-based); entries so far
\* (processedCount is their number)
ForwardLoop(lines, i, entries, o) ==
  IF i < Len(lines) /\ Len(entries) < o.maxLines
  THEN ForwardLoop(lines, i + 1, ForwardBody(lines[i + 1], i + 1, entries, o), o)
  ELSE entries

EmptyWindow == [entries |-> <<>>, totalLines |-> 0, hasMore |-> FALSE, threw |-> FALSE]

\* the return statement of readLogFile
ForwardWindow(entries, totalLines, startLine) ==
  [entries |-> entries,
   totalLines |-> totalLines,
   hasMore |-> startLine + Len(entries) < totalLines,
   threw |-> FALSE]

\* the try block of readLogFile over the lines of the file
readLogFileTry(lines, o) ==
  ForwardWindow(ForwardLoop(lines, o.startLine, <<>>, o), Len(lines), o.startLine)

readLogFile(file, o) ==
  IF ~existsSync(file) THEN EmptyWindow
  ELSE IF readFileSyncThrows(file) THEN EmptyWindow
  ELSE readLogFileTry(split(file.content), o)

\* --------------------------------------------------------- tailLogFile
\* the filter forgotten: blank lines are kept
FilterKeepsBlank(lines) == lines

\* allLines.filter(l => l.trim())
Filter(lines) == SelectSeq(lines, LAMBDA l : trim(l) # <<>>)

\* Math.max forgotten: the second operand as it is
MaxDropped(a, b) == b

Max(a, b) == IF a >= b THEN a ELSE b

\* the try block of tailLogFile over the non-empty lines
tailLogFileTry(allLines, startIndex, template) ==
  [entries |->
     [k \in 1..(Len(allLines) - startIndex) |->
        parseLogLine(allLines[startIndex + k], startIndex + k, template)],
   threw |-> FALSE]

\* allLines of tailLogFile and the startIndex computed from it
tailLogFileFrom(allLines, lines, template) ==
  tailLogFileTry(allLines, Max(0, Len(allLines) - lines), template)

tailLogFile(file, lines, template) ==
  IF ~existsSync(file) THEN [entries |-> <<>>, threw |-> FALSE]
  ELSE IF readFileSyncThrows(file) THEN [entries |-> <<>>, threw |-> FALSE]
  ELSE tailLogFileFrom(Filter(split(file.content)), lines, template)

\* -------------------------------------------------------- checkNewLogs
RECURSIVE NewEntriesLoopFromCursor(_, _, _, _, _, _)
\* the loop with lineIndex >= lastLineNumber: the line at the cursor again
NewEntriesLoopFromCursor(allLines, i, lineIndex, entries, lastLineNumber, template) ==
  IF i < Len(allLines)
  THEN LET line == allLines[i + 1]
       IN IF trim(line) = <<>>
          THEN NewEntriesLoopFromCursor(allLines, i + 1, lineIndex, entries,
                                        lastLineNumber, template)
          ELSE NewEntriesLoopFromCursor(allLines, i + 1, lineIndex + 1,
                 IF lineIndex + 1 >= lastLineNumber
                 THEN Append(entries, parseLogLine(line, lineIndex + 1, template))
                 ELSE entries,
                 lastLineNumber, template)
  ELSE entries

RECURSIVE NewEntriesLoop(_, _, _, _, _, _)
\* the for loop of checkNewLogs from index i (0-based)
NewEntriesLoop(allLines, i, lineIndex, entries, lastLineNumber, template) ==
  IF i < Len(allLines)
  THEN LET line == allLines[i + 1]
       IN IF trim(line) = <<>>
          THEN NewEntriesLoop(allLines, i + 1, lineIndex, entries,
                              lastLineNumber, template)
          ELSE NewEntriesLoop(allLines, i + 1, lineIndex + 1,
                 IF lineIndex + 1 > lastLineNumber
                 THEN Append(entries, parseLogLine(line, lineIndex + 1, template))
                 ELSE entries,
                 lastLineNumber, template)
  ELSE entries

\* a NewLogsResult; entries is undefined or <<the entries>>
NoNewLogs == [newCount |-> 0, totalLines |-> 0, entries |-> undefined, threw |-> FALSE]

\* the return statements of checkNewLogs
NewLogsResult(allLines, totalLines, newCount, lastLineNumber, fetchEntries, template) ==
  IF ~fetchEntries \/ newCount = 0
  THEN [newCount |-> newCount, totalLines |-> totalLines,
        entries |-> undefined, threw |-> FALSE]
  ELSE [newCount |-> newCount, totalLines |-> totalLines,
        entries |-> <<NewEntriesLoop(allLines, 0, 0, <<>>,
                                     lastLineNumber, template)>>,
        threw |-> FALSE]

\* totalLines and newCount of checkNewLogs
NewLogsCount(allLines, totalLines, lastLineNumber, fetchEntries, template) ==
  NewLogsResult(allLines, totalLines, Max(0, totalLines - lastLineNumber),
                lastLineNumber, fetchEntries, template)

\* the try block of checkNewLogs over the lines of the file
checkNewLogsTry(allLines, lastLineNumber, fetchEntries, template) ==
  NewLogsCount(allLines, Len(Filter(allLines)), lastLineNumber,
               fetchEntries, template)

\* checkNewLogs without its catch clause: the read error escapes
checkNewLogsUncaught(file, lastLineNumber, fetchEntries, template) ==
  IF ~existsSync(file) THEN NoNewLogs
  ELSE IF readFileSyncThrows(file) THEN [NoNewLogs EXCEPT !.threw = TRUE]
  ELSE checkNewLogsTry(split(file.content), lastLineNumber, fetchEntries, template)

checkNewLogs(file, lastLineNumber, fetchEntries, template) ==
  IF ~existsSync(file) THEN NoNewLogs
  ELSE IF readFileSyncThrows(file) THEN NoNewLogs
  ELSE checkNewLogsTry(split(file.content), lastLineNumber, fetchEntries, template)

\* -------------------------------------------------- readLogFileFromEnd
\* indexedLines: the non-empty lines with their original line numbers
\* (i + 1 for the 0-based index i)
IndexLines(allLines) ==
  SelectSeq([k \in 1..Len(allLines) |-> [line |-> allLines[k], lineNumber |-> k]],
            LAMBDA l : trim(l.line) # <<>>)

\* findIndex with l.lineNumber > beforeLine: the line at beforeLine stays in range
findIndexAfter(indexedLines, beforeLine) ==
  LET hits == {k \in DOMAIN indexedLines : indexedLines[k].lineNumber > beforeLine}
  IN IF hits = {} THEN 0 - 1
     ELSE (CHOOSE k \in hits : \A j \in hits : k <= j) - 1

\* Array.prototype.findIndex(l => l.lineNumber >= beforeLine), 0-based, -1 if none
findIndex(indexedLines, beforeLine) ==
  LET hits == {k \in DOMAIN indexedLines : indexedLines[k].lineNumber >= beforeLine}
  IN IF hits = {} THEN 0 - 1
     ELSE (CHOOSE k \in hits : \A j \in hits : k <= j) - 1

\* endIndex without the test for -1
EndIndexOrNone(k, length) == k

\* endIndex for the result k of findIndex
EndIndexOr(k, length) == IF k = 0 - 1 THEN length ELSE k

\* endIndex without beforeLine: every scan starts at the end of the file
EndIndexIgnoresCursor(indexedLines, beforeLine) == Len(indexedLines)

\* endIndex: where the backward scan starts (exclusive, 0-based)
EndIndex(indexedLines, beforeLine) ==
  IF beforeLine # undefined
  THEN EndIndexOr(findIndex(indexedLines, beforeLine[1]), Len(indexedLines))
  ELSE Len(indexedLines)

RECURSIVE BackwardLoop(_, _, _, _)
\* the for loop of readLogFileFromEnd from index i (0-based) downward;
\* entries in the order they are pushed (newest first)
BackwardLoop(indexedLines, i, entries, o) ==
  IF i >= 0 /\ Len(entries) < o.limit
  THEN BackwardLoop(indexedLines, i - 1,
         PushIfKept(parseLogLine(indexedLines[i + 1].line,
                                 indexedLines[i + 1].lineNumber, o.template),
                    indexedLines[i + 1].line, entries, o),
         o)
  ELSE entries

\* the reverse forgotten: the entries stay newest first
reverseForgotten(s) == s

\* Array.prototype.reverse
reverse(s) == [k \in 1..Len(s) |-> s[Len(s) + 1 - k]]

EmptyEndWindow ==
  [entries |-> <<>>, totalLines |-> 0, hasMore |-> FALSE,
   oldestLineLoaded |-> 0, newestLineLoaded |-> 0, threw |-> FALSE]

\* hasMore without the comparison with the first indexed line
HasMoreOldestOnly(oldestLineLoaded, indexedLines) == oldestLineLoaded > 1

\* hasMore whenever a line was loaded
HasMoreWhenLoaded(oldestLineLoaded, indexedLines) == oldestLineLoaded > 0

\* hasMore of readLogFileFromEnd
HasMore(oldestLineLoaded, indexedLines) ==
  oldestLineLoaded > 1 /\ indexedLines[1].lineNumber < oldestLineLoaded

\* oldestLineLoaded set only with the first entry pushed
OldestIsFirstPushed(pushed) == IF pushed = <<>> THEN 0 ELSE pushed[1].lineNumber

\* newestLineLoaded, oldestLineLoaded: the lineNumber of the first and of
\* the last entry pushed, 0 if none was
NewestLineLoaded(pushed) == IF pushed = <<>> THEN 0 ELSE pushed[1].lineNumber
OldestLineLoaded(pushed) == IF pushed = <<>> THEN 0 ELSE pushed[Len(pushed)].lineNumber

\* the return statement of readLogFileFromEnd
EndWindow(pushed, indexedLines) ==
  [entries |-> reverse(pushed),
   totalLines |-> Len(indexedLines),
   hasMore |-> HasMore(OldestLineLoaded(pushed), indexedLines),
   oldestLineLoaded |-> OldestLineLoaded(pushed),
   newestLineLoaded |-> NewestLineLoaded(pushed),
   threw |-> FALSE]

\* the try block of readLogFileFromEnd over the indexed lines
readLogFileFromEndTry(indexedLines, o) ==
  IF Len(indexedLines) = 0 THEN EmptyEndWindow
  ELSE EndWindow(BackwardLoop(indexedLines,
                              EndIndex(indexedLines, o.beforeLine) - 1, <<>>, o),
                 indexedLines)

readLogFileFromEnd(file, o) ==
  IF ~existsSync(file) THEN EmptyEndWindow
  ELSE IF readFileSyncThrows(file) THEN EmptyEndWindow
  ELSE readLogFileFromEndTry(IndexLines(split(file.content)), o)

\* =================================================== the state machine
VARIABLES
  file,    \* the log file: [status, content]
  res,     \* the call the caller last made, with its result; idle if none
  pages,   \* history: the pages of the load-older sequence in progress
  viewer   \* the log viewer page: its React state and refs

vars == <<file, res, pages, viewer>>

\* the lines writers append
LineSamples == {<<"2024-12-10 08:00:01", " ", "ERROR">>, <<"BOOM">>, <<" ">>, <<>>}

\* the filter settings callers pass
FilterSets ==
  {[level |-> "all", search |-> undefined, startDate |-> undefined, endDate |-> undefined],
   [level |-> "error", search |-> undefined, startDate |-> undefined, endDate |-> undefined],
   [level |-> "info", search |-> undefined, startDate |-> undefined, endDate |-> undefined],
   [level |-> "all", search |-> <<"boom">>, startDate |-> undefined, endDate |-> undefined],
   [level |-> "all", search |-> undefined, startDate |-> <<"2024-12-11">>, endDate |-> undefined],
   [level |-> "all", search |-> undefined, startDate |-> undefined, endDate |-> <<"2024-12-10">>],
   [level |-> "error", search |-> <<"2024-12-10">>, startDate |-> undefined, endDate |-> <<"2024-12-11">>]}

Limits == 0..MaxLimit
Cursors == 0..(MaxFileLines + 2)

Idle == [op |-> "idle"]

\* number of lines written so far: whole lines and an unfinished last one
Written(content) == Len(split(content)) - (IF content = <<>> \/ content[Len(content)] = NL THEN 1 ELSE 0)
\* the last line has no newline yet
Unfinished(content) == content # <<>> /\ content[Len(content)] # NL

\* the viewer page before it is opened
NoViewer ==
  [loaded |-> FALSE,
   filters |-> [level |-> "all", search |-> undefined,
                startDate |-> undefined, endDate |-> undefined],
   limit |-> 1, logs |-> <<>>, hasMore |-> FALSE,
   newLogsCount |-> 0, pendingLogs |-> <<>>,
   lastLineNumberRef |-> 0, oldestLineRef |-> 0, polls |-> <<>>,
   generation |-> 0, shown |-> <<>>, pendingIds |-> <<>>, tail |-> 0,
   firstNewest |-> 0, loadedIn |-> 0, atLoad |-> {}, atOlder |-> {},
   atPoll |-> {}]

Init ==
  /\ file = [status |-> "absent", content |-> <<>>]
  /\ res = Idle
  /\ pages = <<>>
  /\ viewer = NoViewer

\* ---- the environment: the file
\* the log file is created empty
CreateFile ==
  /\ res = Idle /\ file.status # "file"
  /\ file' = [status |-> "file", content |-> <<>>]
  /\ UNCHANGED <<res, pages, viewer>>

\* the log file is deleted
RemoveFile ==
  /\ res = Idle /\ file.status = "file"
  /\ file' = [status |-> "absent", content |-> <<>>]
  /\ UNCHANGED <<res, pages, viewer>>

\* the log path becomes a directory: it exists and reading it fails (EISDIR)
ReplaceByDirectory ==
  /\ res = Idle /\ file.status = "file"
  /\ file' = [status |-> "directory", content |-> <<>>]
  /\ UNCHANGED <<res, pages, viewer>>

\* a writer appends one whole line
WriteLine ==
  /\ res = Idle /\ file.status = "file" /\ ~Unfinished(file.content)
  /\ Written(file.content) < MaxFileLines
  /\ \E text \in LineSamples :
       file' = [file EXCEPT !.content = file.content \o text \o <<NL>>]
  /\ UNCHANGED <<res, pages, viewer>>

\* a writer appends the text of a line, the newline not yet
WritePartial ==
  /\ res = Idle /\ file.status = "file" /\ ~Unfinished(file.content)
  /\ Written(file.content) < MaxFileLines
  /\ \E text \in LineSamples :
       file' = [file EXCEPT !.content = file.content \o text]
  /\ UNCHANGED <<res, pages, viewer>>

\* the writer finishes the unfinished line
WriteNewline ==
  /\ res = Idle /\ file.status = "file" /\ Unfinished(file.content)
  /\ file' = [file EXCEPT !.content = file.content \o <<NL>>]
  /\ UNCHANGED <<res, pages, viewer>>

\* ---- the calls
ReadLogFile ==
  /\ res = Idle
  /\ \E f \in FilterSets, t \in LogTemplate, sl \in Cursors, ml \in Limits :
       LET o == [startLine |-> sl, maxLines |-> ml, search |-> f.search,
                 level |-> f.level, startDate |-> f.startDate,
                 endDate |-> f.endDate, template |-> t]
       IN res' = [op |-> "readLogFile", o |-> o, out |-> readLogFile(file, o)]
  /\ pages' = <<>>
  /\ UNCHANGED <<file, viewer>>

ReadLogFileFromEnd ==
  /\ res = Idle
  /\ \E f \in FilterSets, t \in LogTemplate, lim \in Limits,
        b \in {undefined} \cup {<<c>> : c \in Cursors} :
       LET o == [limit |-> lim, beforeLine |-> b, search |-> f.search,
                 level |-> f.level, startDate |-> f.startDate,
                 endDate |-> f.endDate, template |-> t]
       IN \E out \in {readLogFileFromEnd(file, o)} :
            /\ res' = [op |-> "readLogFileFromEnd", o |-> o, out |-> out]
            /\ pages' = IF b = undefined THEN <<out.entries>> ELSE <<>>
  /\ UNCHANGED <<file, viewer>>

\* the next older page: beforeLine is the previous page's oldestLineLoaded
LoadOlder ==
  /\ res.op = "readLogFileFromEnd" /\ pages # <<>> /\ res.out.hasMore
  /\ LET o == [res.o EXCEPT !.beforeLine = <<res.out.oldestLineLoaded>>]
     IN \E out \in {readLogFileFromEnd(file, o)} :
          /\ res' = [op |-> "readLogFileFromEnd", o |-> o, out |-> out]
          /\ pages' = Append(pages, out.entries)
  /\ UNCHANGED <<file, viewer>>

CheckNewLogs ==
  /\ res = Idle
  /\ \E last \in Cursors, fetch \in BOOLEAN, t \in LogTemplate :
       res' = [op |-> "checkNewLogs", lastLineNumber |-> last,
               fetchEntries |-> fetch, template |-> t, second |-> FALSE,
               first |-> NoNewLogs,
               out |-> checkNewLogs(file, last, fetch, t)]
  /\ pages' = <<>>
  /\ UNCHANGED <<file, viewer>>

\* the same call again, the file unchanged
CheckNewLogsAgain ==
  /\ res.op = "checkNewLogs" /\ ~res.second
  /\ res' = [res EXCEPT !.second = TRUE, !.first = res.out,
               !.out = checkNewLogs(file, res.lastLineNumber,
                                    res.fetchEntries, res.template)]
  /\ UNCHANGED <<file, pages, viewer>>

TailLogFile ==
  /\ res = Idle
  /\ \E n \in Limits, t \in LogTemplate :
       res' = [op |-> "tailLogFile", lines |-> n, template |-> t,
               out |-> tailLogFile(file, n, t)]
  /\ pages' = <<>>
  /\ UNCHANGED <<file, viewer>>

\* the caller is done with the result
Discard ==
  /\ res # Idle
  /\ res' = Idle
  /\ pages' = <<>>
  /\ UNCHANGED <<file, viewer>>

Next ==
  \/ CreateFile \/ RemoveFile \/ ReplaceByDirectory
  \/ WriteLine \/ WritePartial \/ WriteNewline
  \/ ReadLogFile \/ ReadLogFileFromEnd \/ LoadOlder
  \/ CheckNewLogs \/ CheckNewLogsAgain \/ TailLogFile
  \/ Discard

Spec == Init /\ [][Next]_vars

\* ============================================ the parser on single lines
\* how a line starts
Heads ==
  {<<>>}
  \cup {<<s>> : s \in SpaceStamps \cup IsoStamps \cup SyslogStamps}
  \cup {<<"2024-12-10 08:00:01", f>> : f \in DotFraction \cup CommaFraction}
  \cup {<<"2024-12-12T07:00:00", "Z">>, <<"2024-12-12T07:00:00", ".234", "Z">>}
  \cup {<<"[", "2024-12-10 08:00:01", "]", " ", "production", ".", lv, ":">> :
          lv \in {"ERROR", "WARNING", "NOTICE", "INFO", "DEBUG", "CRITICAL",
                  "alert", "emergency", "BOOM"}}
  \cup {<<"[", "2024-12-10 08:00:01", "]", "production", ".", "ERROR", ":">>}
  \cup {<<lv, ":">> : lv \in {"INFO", "WARNING", "ERROR", "DEBUG", "CRITICAL",
                              "warning", "NOTICE"}}
  \cup {<<"2024-12-10 08:00:01", ",234", " ", "-", " ", "uvicorn", ".", "error",
          " ", "-", " ", lv, " ", "-">> : lv \in {"INFO", "WARNING", "DEBUG", "CRITICAL"}}

\* how it goes on
Bodies ==
  {<<>>, <<"BOOM">>, <<"ok">>, <<"ERROR">>, <<"warning">>, <<"debug">>,
   <<"traceback">>, <<"fatal">>, <<"#0">>, <<"exception", " ">>,
   <<"warn", " ", "error">>, <<"debug", " ", "warning">>, <<"trace", " ", "critical">>}

\* lines that start with { and end with }
JsonValues == JsonStrings \cup JsonNumbers
JsonLines ==
  {<<"{", "}">>, <<"{", "BOOM", "}">>, <<"{", "ERROR", "}">>,
   <<"{", "\"message\"", ":", "\"boom\"", ",", "}">>}
  \cup {<<"{", k, ":", v, "}">> : k \in JsonKeys, v \in JsonValues}
  \cup {<<"{", k, ":", "\"boom\"", ",", l, ":", v, "}">> :
          k \in {"\"message\"", "\"timestamp\"", "\"level\""},
          l \in {"\"level\"", "\"levelname\"", "\"msg\""}, v \in JsonValues}

\* the non-empty lines given to the parser
ParseLines ==
  {l \in {h \o sep \o b : h \in Heads, sep \in {<<>>, <<" ">>}, b \in Bodies}
          \cup JsonLines : trim(l) # <<>>}

\* the template identifiers given to the parser: the three templates, an
\* identifier that names nothing, and two that name inherited properties
ParseTemplates == LogTemplate \cup {"nginx", "constructor", "__proto__"}
LineNumbers == 1..MaxFileLines

ParseLogLine ==
  /\ res = Idle
  /\ \E line \in ParseLines, n \in LineNumbers, t \in ParseTemplates :
       \E out \in {parseLogLine(line, n, t)} :
         res' = [op |-> "parseLogLine", line |-> line, lineNumber |-> n,
                 template |-> t, out |-> out]
  /\ UNCHANGED <<file, pages, viewer>>

ParseNext == ParseLogLine \/ Discard

ParseSpec == Init /\ [][ParseNext]_vars

\* ================================== the filter statements on single lines
\* the filter settings given to the filter statements: those of the
\* readers, an upper-case search text and bounds that fall on an entry's day
FilterSettings ==
  FilterSets \cup
  {[level |-> "warning", search |-> <<"BOOM">>, startDate |-> undefined, endDate |-> undefined],
   [level |-> "all", search |-> undefined, startDate |-> <<"2024-12-10">>, endDate |-> <<"2024-12-12">>],
   [level |-> "info", search |-> undefined, startDate |-> <<"2024-12-11">>, endDate |-> <<"2024-12-11">>]}

\* one pass of the filter statements of a reader's loop over a parsed line
ApplyFilters ==
  /\ res = Idle
  /\ \E line \in ParseLines, t \in LogTemplate, f \in FilterSettings :
       \E entry \in {parseLogLine(line, 1, t)} :
         res' = [op |-> "filter", line |-> line,
                 o |-> [level |-> f.level, search |-> f.search,
                        startDate |-> f.startDate, endDate |-> f.endDate,
                        template |-> t],
                 entry |-> entry,
                 kept |-> PushIfKept(entry, line, <<>>, f) # <<>>]
  /\ UNCHANGED <<file, pages, viewer>>

FilterNext == ApplyFilters \/ Discard

FilterSpec == Init /\ [][FilterNext]_vars

\* ====================================================== the log viewer
\* The page of one supervisor's stdout log.  Fields of viewer that are the
\* page's state: loaded (the supervisor is set and a first page arrived),
\* filters (search, levelFilter, startDate, endDate), logs, hasMore,
\* newLogsCount, pendingLogs, lastLineNumberRef, oldestLineRef, and polls,
\* the answers of checkForNewLogs still on their way.  History, which the
\* page does not have: generation (how often the file was started anew),
\* shown and pendingIds (for each entry of logs and pendingLogs the
\* generation and the position in the file of the line it was read from),
\* tail (how many entries of logs came from pendingLogs), firstNewest (the
\* newestLineLoaded of the first page), loadedIn (the generation the first
\* page was read in), atLoad, atOlder and atPoll (the non-empty lines the
\* file had when the first page, the latest older page and the latest answer
\* of checkForNewLogs were read).
MaxPollsInFlight == 1   \* most answers of checkForNewLogs on their way
MaxRotations == 1       \* most times the log file is started anew

\* longest list the page is let to show
MaxShown == MaxFileLines + 1

\* supervisor.log_template of the supervisor shown
ViewerTemplate == "default"

\* limit: 500 of the page, scaled down
PageSizes == 1..MaxLimit

\* the filters the user sets
ViewerFilters ==
  {[level |-> "all", search |-> undefined, startDate |-> undefined, endDate |-> undefined],
   [level |-> "error", search |-> undefined, startDate |-> undefined, endDate |-> undefined]}

\* the lines of the file, none if it cannot be read
LinesOfFile(f) == IF f.status = "file" THEN split(f.content) ELSE <<>>

\* positions of the non-empty lines
NonEmptyAt(allLines) == {k \in DOMAIN allLines : trim(allLines[k]) # <<>>}

\* position of the n-th non-empty line
NthNonEmpty(allLines, n) ==
  CHOOSE p \in NonEmptyAt(allLines) :
    Cardinality({q \in NonEmptyAt(allLines) : q <= p}) = n

\* history: the lines the file holds
LinesHeld(f, generation) == {<<generation, k>> : k \in NonEmptyAt(LinesOfFile(f))}

\* history: the lines a window of readLogFileFromEnd was read from
WindowIds(entries, generation) ==
  [k \in DOMAIN entries |-> <<generation, entries[k].lineNumber>>]

\* history: the lines the entries of checkNewLogs were read from
NewIds(entries, allLines, generation) ==
  [k \in DOMAIN entries |-> <<generation, NthNonEmpty(allLines, entries[k].lineNumber)>>]

\* the data loadLogs and loadOlderLogs send to getLogsFromEnd
LogsFromEndData(filters, limit, beforeLine) ==
  [limit |-> limit, beforeLine |-> beforeLine, search |-> filters.search,
   level |-> filters.level, startDate |-> filters.startDate,
   endDate |-> filters.endDate, template |-> ViewerTemplate]

\* loadLogs after its await
LogsLoaded(v, filters, limit, out, held) ==
  [v EXCEPT !.loaded = TRUE, !.filters = filters, !.limit = limit,
            !.logs = out.entries, !.hasMore = out.hasMore,
            !.lastLineNumberRef = out.newestLineLoaded,
            !.oldestLineRef = out.oldestLineLoaded,
            !.newLogsCount = 0, !.pendingLogs = <<>>,
            !.shown = WindowIds(out.entries, v.generation),
            !.pendingIds = <<>>, !.tail = 0,
            !.firstNewest = out.newestLineLoaded,
            !.loadedIn = v.generation,
            !.atLoad = held, !.atOlder = held, !.atPoll = held]

\* the older page put behind the list
AppendOlder(entries, prev) == prev \o entries

\* setLogs(prev => [...entries, ...prev])
PrependOlder(entries, prev) == entries \o prev

\* loadOlderLogs after its await
OlderLoaded(v, out, held) ==
  IF Len(out.entries) > 0
  THEN [v EXCEPT !.logs = PrependOlder(out.entries, @),
                 !.shown = PrependOlder(WindowIds(out.entries, v.generation), @),
                 !.oldestLineRef = out.oldestLineLoaded,
                 !.hasMore = out.hasMore, !.atOlder = held]
  ELSE [v EXCEPT !.hasMore = out.hasMore, !.atOlder = held]

\* the answer of checkForNewLogs with its history
NewLogsAnswer(f, v) ==
  LET out == checkNewLogs(f, v.lastLineNumberRef, TRUE, ViewerTemplate)
  IN [out |-> out,
      ids |-> IF out.entries = undefined THEN <<>>
              ELSE NewIds(out.entries[1], LinesOfFile(f), v.generation),
      held |-> LinesHeld(f, v.generation)]

\* checkNewLogsHandler after its await
NewLogsChecked(v, answer) ==
  IF answer.out.newCount > 0
  THEN IF answer.out.entries # undefined
       THEN [v EXCEPT !.newLogsCount = answer.out.newCount,
                      !.pendingLogs = answer.out.entries[1],
                      !.pendingIds = answer.ids,
                      !.atPoll = answer.held]
       ELSE [v EXCEPT !.newLogsCount = answer.out.newCount,
                      !.atPoll = answer.held]
  ELSE [v EXCEPT !.atPoll = answer.held]

\* Math.max(...pendingLogs.map(e => e.lineNumber || 0))
MaxLineNumber(entries) ==
  CHOOSE n \in {entries[k].lineNumber : k \in DOMAIN entries} :
    \A k \in DOMAIN entries : entries[k].lineNumber <= n

\* the page opens, the user presses refresh or changes a filter
LoadLogs ==
  /\ \E filters \in ViewerFilters,
        limit \in (IF viewer.loaded THEN {viewer.limit} ELSE PageSizes) :
       \E out \in {readLogFileFromEnd(file, LogsFromEndData(filters, limit, undefined))} :
         viewer' = LogsLoaded(viewer, filters, limit, out,
                              LinesHeld(file, viewer.generation))
  /\ UNCHANGED <<file, res, pages>>

\* the user scrolls to the oldest entry shown
LoadOlderLogs ==
  /\ viewer.loaded /\ viewer.hasMore
  /\ \E out \in {readLogFileFromEnd(file,
                   LogsFromEndData(viewer.filters, viewer.limit,
                                   <<viewer.oldestLineRef>>))} :
       viewer' = OlderLoaded(viewer, out, LinesHeld(file, viewer.generation))
  /\ UNCHANGED <<file, res, pages>>

\* the polling timer fires and the answer arrives before anything else happens
CheckNewLogsHandler ==
  /\ viewer.loaded
  /\ \E answer \in {NewLogsAnswer(file, viewer)} :
       viewer' = NewLogsChecked(viewer, answer)
  /\ UNCHANGED <<file, res, pages>>

\* the user presses the new-logs button
LoadNewLogs ==
  /\ Len(viewer.pendingLogs) > 0
  /\ Len(viewer.logs) + Len(viewer.pendingLogs) <= MaxShown
  /\ viewer' = [viewer EXCEPT
       !.logs = @ \o viewer.pendingLogs,
       !.lastLineNumberRef = Max(@, MaxLineNumber(viewer.pendingLogs)),
       !.newLogsCount = 0, !.pendingLogs = <<>>,
       !.shown = @ \o viewer.pendingIds, !.pendingIds = <<>>,
       !.tail = @ + Len(viewer.pendingLogs)]
  /\ UNCHANGED <<file, res, pages>>

ViewerNext ==
  \/ CreateFile \/ WriteLine
  \/ LoadLogs \/ LoadOlderLogs \/ CheckNewLogsHandler \/ LoadNewLogs

ViewerSpec == Init /\ [][ViewerNext]_vars

\* ---- the callbacks of the page interleaved
\* the polling timer fires: checkForNewLogs is sent and answered
PollRequest ==
  /\ viewer.loaded /\ Len(viewer.polls) < MaxPollsInFlight
  /\ viewer' = [viewer EXCEPT !.polls = Append(@, NewLogsAnswer(file, viewer))]
  /\ UNCHANGED <<file, res, pages>>

\* an answer of checkForNewLogs arrives
PollResponse ==
  /\ \E i \in DOMAIN viewer.polls :
       viewer' = [NewLogsChecked(viewer, viewer.polls[i]) EXCEPT
                    !.polls = SubSeq(@, 1, i - 1) \o SubSeq(@, i + 1, Len(@))]
  /\ UNCHANGED <<file, res, pages>>

AsyncNext ==
  \/ CreateFile \/ WriteLine
  \/ LoadLogs \/ LoadOlderLogs \/ PollRequest \/ PollResponse \/ LoadNewLogs

AsyncSpec == Init /\ [][AsyncNext]_vars

\* ---- the log file started anew under the page
\* the log is rotated or truncated: the path holds a new, empty file
Rotate ==
  /\ res = Idle /\ file.status = "file" /\ file.content # <<>>
  /\ viewer.generation < MaxRotations
  /\ file' = [status |-> "file", content |-> <<>>]
  /\ viewer' = [viewer EXCEPT !.generation = @ + 1]
  /\ UNCHANGED <<res, pages>>

RotationNext ==
  \/ CreateFile \/ WriteLine \/ Rotate
  \/ LoadLogs \/ LoadOlderLogs \/ CheckNewLogsHandler \/ LoadNewLogs

RotationSpec == Init /\ [][RotationNext]_vars



\* ============================================================ claims
\* ---- what the claims speak of, stated on the file itself
\* the lines of the file, blank ones included
FileLines == split(file.content)
IsBlank(line) == \A i \in DOMAIN line : line[i] \in Whitespace
\* the positions (1-based, among all lines) of the non-empty lines
NonEmptyPositions == {i \in DOMAIN FileLines : ~IsBlank(FileLines[i])}
NonEmptyCount == Cardinality(NonEmptyPositions)
Readable == file.status = "file"

\* the entries a call returned, <<>> when it returned none
ResEntries ==
  IF res.op \in {"readLogFile", "readLogFileFromEnd", "tailLogFile"}
  THEN res.out.entries
  ELSE IF res.op = "checkNewLogs" /\ res.out.entries # undefined
  THEN res.out.entries[1]
  ELSE <<>>

RECURSIVE Concat(_)
\* the pages one after the other, in the order given
Concat(ps) == IF ps = <<>> THEN <<>> ELSE ps[1] \o Concat(Tail(ps))

\* the load-older sequence has reached hasMore = false
PagingDone == pages # <<>> /\ res.op = "readLogFileFromEnd" /\ ~res.out.hasMore

\* one full forward scan with the template and filters of the paging calls
FullForwardScan ==
  readLogFile(file, [startLine |-> 0, maxLines |-> Len(FileLines),
                     search |-> res.o.search, level |-> res.o.level,
                     startDate |-> res.o.startDate, endDate |-> res.o.endDate,
                     template |-> res.o.template]).entries

\* C1 (as stated): when the load-older sequence is complete, the pages
\* concatenated in the order they were fetched, the concatenation then
\* reversed, are the entries of one full forward scan.
C1_ReversedConcatIsForwardScan ==
  (PagingDone /\ res.o.limit >= 1) => reverse(Concat(pages)) = FullForwardScan

\* C1 (amended): for limit >= 1, when the load-older sequence is complete,
\* the pages concatenated oldest page first (each page placed before the
\* pages fetched earlier) are the entries of one full forward scan with the
\* same template and filters.
C1_PagesOldestFirstAreForwardScan ==
  (PagingDone /\ res.o.limit >= 1) => Concat(reverse(pages)) = FullForwardScan

\* a complete sequence of two pages, the first with two entries, under a filter
C1_Witness ==
  /\ PagingDone /\ res.o.limit = 2 /\ Len(pages) >= 2
  /\ Len(pages[1]) = 2 /\ Len(FullForwardScan) = 3
  /\ res.o.level = "error"

\* C2: in every entry any operation returns, lineNumber is the 1-based
\* position of that line among all lines of the file, blank lines included.
C2_LineNumberIsFilePosition ==
  \A k \in DOMAIN ResEntries :
     /\ ResEntries[k].lineNumber \in DOMAIN FileLines
     /\ FileLines[ResEntries[k].lineNumber] = ResEntries[k].raw

\* C3: within one result of readLogFile, readLogFileFromEnd or checkNewLogs
\* lineNumber is strictly ascending from the first entry to the last.
C3_StrictlyAscending ==
  res.op \in {"readLogFile", "readLogFileFromEnd", "checkNewLogs"} =>
    \A j, k \in DOMAIN ResEntries :
       j < k => ResEntries[j].lineNumber < ResEntries[k].lineNumber

\* a backward window of two entries taken below a beforeLine, a blank line skipped
C3_Witness ==
  /\ res.op = "readLogFileFromEnd" /\ Len(res.out.entries) = 2
  /\ res.o.beforeLine # undefined
  /\ res.out.newestLineLoaded - res.out.oldestLineLoaded = 2

\* C4: for an existing file that is empty or has only blank lines, both
\* readers return totalLines = 0, hasMore = false and no entries.
C4_BlankFileIsEmptyWindow ==
  (Readable /\ NonEmptyCount = 0
     /\ res.op \in {"readLogFile", "readLogFileFromEnd"}) =>
    /\ res.out.totalLines = 0
    /\ res.out.hasMore = FALSE
    /\ res.out.entries = <<>>

\* C5: totalLines of every windowed read is the number of non-empty lines
\* of the whole file, whatever the filters, limit, startLine and beforeLine
\* (and so equals the totalLines checkNewLogs reports).
C5_TotalLinesIsNonEmptyCount ==
  (Readable /\ res.op \in {"readLogFile", "readLogFileFromEnd", "checkNewLogs"}) =>
    res.out.totalLines = NonEmptyCount

\* C6: when the file does not exist or reading it fails, no operation
\* throws and each returns its empty result, whatever the other parameters.
C6_MissingFileIsEmptyResult ==
  ~Readable =>
    /\ res.op = "readLogFile" => res.out = EmptyWindow
    /\ res.op = "readLogFileFromEnd" =>
         /\ res.out.entries = <<>> /\ res.out.totalLines = 0
         /\ res.out.hasMore = FALSE /\ res.out.oldestLineLoaded = 0
         /\ res.out.newestLineLoaded = 0 /\ res.out.threw = FALSE
    /\ res.op = "checkNewLogs" =>
         /\ res.out.newCount = 0 /\ res.out.totalLines = 0
         /\ res.out.entries = undefined /\ res.out.threw = FALSE

\* the read of an existing path failed under a poll that asked for entries
C6_Witness ==
  /\ file.status = "directory" /\ res.op = "checkNewLogs"
  /\ res.fetchEntries /\ res.lastLineNumber = 0

\* C7: on a readable file checkNewLogs returns totalLines = the count of
\* non-empty lines and newCount = max(0, totalLines - lastLineNumber) >= 0.
C7_NewCountIsClampedDifference ==
  (Readable /\ res.op = "checkNewLogs") =>
    /\ res.out.totalLines = NonEmptyCount
    /\ res.out.newCount >= 0
    /\ res.out.newCount =
         (IF NonEmptyCount >= res.lastLineNumber
          THEN NonEmptyCount - res.lastLineNumber ELSE 0)

\* the cursor lies beyond the lines of a file that has some
C7_Witness ==
  /\ Readable /\ res.op = "checkNewLogs"
  /\ NonEmptyCount = 2 /\ res.lastLineNumber = 3


\* ---- the file as it was before it grew
\* the lengths the file had on its way to its present content: after each
\* newline and after the text of each line
Boundaries ==
  {p \in 0..Len(file.content) :
     \/ p = 0 \/ p = Len(file.content)
     \/ file.content[p] = NL \/ file.content[p + 1] = NL}
LinesAt(p) == split(SubSeq(file.content, 1, p))
NonEmptyCountAt(p) ==
  Cardinality({i \in DOMAIN LinesAt(p) : ~IsBlank(LinesAt(p)[i])})

\* the positions of the non-empty lines that were appended after the file
\* had length p: the lines past its last line, and that last line if it
\* was still blank
AppendedPositions(p) ==
  LET k == Len(LinesAt(p))
  IN {j \in NonEmptyPositions : j > k \/ (j = k /\ IsBlank(LinesAt(p)[k]))}

RECURSIVE LinesOf(_)
\* the file's lines at the positions S, in file order
LinesOf(S) ==
  IF S = {} THEN <<>>
  ELSE LET j == CHOOSE x \in S : \A y \in S : x <= y
       IN <<FileLines[j]>> \o LinesOf(S \ {j})

Raws(entries) == [k \in DOMAIN entries |-> entries[k].raw]

\* C8: if the file had n non-empty lines and grew by appending to m > n,
\* checkNewLogs with lastLineNumber = n and fetchEntries = true returns
\* newCount = m - n and exactly the appended non-empty lines, in file
\* order, one entry per line.
C8_FetchReturnsAppendedLines ==
  (Readable /\ res.op = "checkNewLogs" /\ res.fetchEntries) =>
    \A p \in Boundaries :
       (res.lastLineNumber = NonEmptyCountAt(p) /\ NonEmptyCount > NonEmptyCountAt(p)) =>
         /\ res.out.newCount = NonEmptyCount - NonEmptyCountAt(p)
         /\ res.out.entries # undefined
         /\ Raws(res.out.entries[1]) = LinesOf(AppendedPositions(p))

\* the file grew from one non-empty line by a blank line and a non-empty one
C8_Witness ==
  /\ Readable /\ res.op = "checkNewLogs" /\ res.fetchEntries
  /\ res.lastLineNumber = 1 /\ NonEmptyCount = 2
  /\ \E p \in Boundaries :
       /\ NonEmptyCountAt(p) = 1 /\ Len(LinesAt(p)) = 2
       /\ AppendedPositions(p) = {3}
  /\ Len(res.out.entries[1]) = 1

\* C9 (as stated): checkNewLogs called twice with the same lastLineNumber on
\* an unchanged file returns newCount = 0 both times.
C9_TwiceReturnsZero ==
  (res.op = "checkNewLogs" /\ res.second) =>
    res.first.newCount = 0 /\ res.out.newCount = 0

\* C9 (amended): checkNewLogs called twice with the same lastLineNumber on an
\* unchanged file returns the same newCount both times, and that is 0 both
\* times when lastLineNumber is at least the file's count of non-empty lines.
C9_TwiceReturnsSameAndZeroWhenCurrent ==
  (res.op = "checkNewLogs" /\ res.second) =>
    /\ res.first.newCount = res.out.newCount
    /\ (~Readable \/ res.lastLineNumber >= NonEmptyCount) =>
         (res.first.newCount = 0 /\ res.out.newCount = 0)

\* the second poll of a caller that is up to date, the file having blank lines
C9_Witness ==
  /\ Readable /\ res.op = "checkNewLogs" /\ res.second
  /\ res.lastLineNumber = 2 /\ NonEmptyCount = 2 /\ Len(FileLines) = 4

\* C10: readLogFileFromEnd returns hasMore = true iff the window is not
\* empty and oldestLineLoaded is greater than the lineNumber of the file's
\* first non-empty line; an empty window has hasMore = false.
C10_HasMoreIffOlderLineIndexed ==
  res.op = "readLogFileFromEnd" =>
    (res.out.hasMore <=>
       /\ res.out.entries # <<>>
       /\ \E i \in NonEmptyPositions : i < res.out.oldestLineLoaded)

\* the window reaches the first non-empty line, which is not line 1
C10_Witness ==
  /\ res.op = "readLogFileFromEnd" /\ res.out.entries # <<>>
  /\ res.out.oldestLineLoaded = 2 /\ ~res.out.hasMore
  /\ Len(res.out.entries) = 2

\* ---- the backward window and its cursors
IsEndRead == res.op = "readLogFileFromEnd"

\* C11: in every readLogFileFromEnd result, if entries is non-empty then
\* oldestLineLoaded is the lineNumber of the first entry and
\* newestLineLoaded that of the last (so 1 <= oldest <= newest); if entries
\* is empty both are 0.
C11_CursorsAreWindowEnds ==
  IsEndRead =>
    IF res.out.entries # <<>>
    THEN /\ res.out.oldestLineLoaded = res.out.entries[1].lineNumber
         /\ res.out.newestLineLoaded =
              res.out.entries[Len(res.out.entries)].lineNumber
         /\ 1 <= res.out.oldestLineLoaded
         /\ res.out.oldestLineLoaded <= res.out.newestLineLoaded
    ELSE res.out.oldestLineLoaded = 0 /\ res.out.newestLineLoaded = 0

\* a window of two entries under a filter, a rejected line between them
C11_Witness ==
  /\ IsEndRead /\ Len(res.out.entries) = 2 /\ res.o.level = "error"
  /\ res.out.oldestLineLoaded = 1 /\ res.out.newestLineLoaded = 3
  /\ NonEmptyCount = 3

\* ---- what a window should hold, stated on the file itself
\* the line at position i passes the filters of the call
Matches(i) ==
  PassesFilters(parseLogLine(FileLines[i], i, res.o.template), FileLines[i], res.o)
\* the positions of the filter-matching non-empty lines in the set S
MatchingIn(S) == {i \in NonEmptyPositions \cap S : Matches(i)}
\* the n highest members of S (all of S if it has fewer)
Highest(S, n) == {i \in S : Cardinality({j \in S : j > i}) < n}
\* the n lowest members of S
Lowest(S, n) == {i \in S : Cardinality({j \in S : j < i}) < n}
LineNumbersOf(entries) == {entries[k].lineNumber : k \in DOMAIN entries}
Min(a, b) == IF a <= b THEN a ELSE b
\* the positions a backward read may take its window from
BelowCursor ==
  IF res.o.beforeLine = undefined THEN DOMAIN FileLines
  ELSE {i \in DOMAIN FileLines : i < res.o.beforeLine[1]}

\* C12: readLogFileFromEnd with beforeLine = b returns only entries with
\* lineNumber < b, and they are exactly the (up to limit) filter-matching
\* non-empty lines with the highest line numbers below b, none between the
\* oldest entry and b left out; without beforeLine, or with b above every
\* line number, the window is taken from the end of the file.
C12_WindowIsHighestBelowCursor ==
  (Readable /\ IsEndRead) =>
    /\ LineNumbersOf(res.out.entries) = Highest(MatchingIn(BelowCursor), res.o.limit)
    /\ \A k \in DOMAIN res.out.entries :
         res.out.entries[k].raw = FileLines[res.out.entries[k].lineNumber]
    /\ (res.o.beforeLine # undefined /\ res.o.beforeLine[1] > Len(FileLines)) =>
         LineNumbersOf(res.out.entries) = Highest(MatchingIn(DOMAIN FileLines), res.o.limit)

\* beforeLine = 3 on a file of three lines, limit 1, the line just below
\* the cursor rejected by the search filter and the one before it returned
C12_Witness ==
  /\ Readable /\ IsEndRead /\ res.o.beforeLine = <<3>> /\ res.o.limit = 1
  /\ NonEmptyCount = 3 /\ res.o.search # undefined
  /\ ~Matches(2) /\ LineNumbersOf(res.out.entries) = {1}

\* the positions a forward read scans: index startLine (0-based) onward
FromStart == {i \in DOMAIN FileLines : i > res.o.startLine}

\* C13: in both read modes lines rejected by a filter do not consume the
\* budget: the number of returned entries is min(budget, number of
\* filter-matching non-empty lines in the scanned range), never more than
\* the budget.
C13_FilteredLinesLeaveBudget ==
  /\ (Readable /\ IsEndRead) =>
       /\ Len(res.out.entries) =
            Min(res.o.limit, Cardinality(MatchingIn(BelowCursor)))
       /\ Len(res.out.entries) <= res.o.limit
  /\ (Readable /\ res.op = "readLogFile") =>
       /\ Len(res.out.entries) =
            Min(res.o.maxLines, Cardinality(MatchingIn(FromStart)))
       /\ Len(res.out.entries) <= res.o.maxLines
       /\ LineNumbersOf(res.out.entries) =
            Lowest(MatchingIn(FromStart), res.o.maxLines)

\* a forward read of budget 2 that fills it although the line between the
\* two entries is rejected by the level filter
C13_Witness ==
  /\ Readable /\ res.op = "readLogFile" /\ res.o.maxLines = 2
  /\ res.o.startLine = 0 /\ res.o.level = "error"
  /\ LineNumbersOf(res.out.entries) = {1, 3} /\ ~Matches(2)
  /\ 2 \in NonEmptyPositions

\* the last position the forward scan consumed: where the budget was
\* reached, or the end of the file; startLine if the budget is 0
ScanEnd ==
  LET full == {i \in FromStart :
                 Cardinality(MatchingIn({j \in FromStart : j <= i})) >= res.o.maxLines}
  IN IF res.o.maxLines = 0 THEN Min(res.o.startLine, Len(FileLines))
     ELSE IF full = {} THEN Len(FileLines)
     ELSE CHOOSE i \in full : \A j \in full : i <= j

\* C14: readLogFile returns hasMore = true exactly when non-empty lines
\* exist past the last line the scan consumed; it is false whenever the
\* scan reached the end of the file.
C14_HasMoreIffCandidatesRemain ==
  (Readable /\ res.op = "readLogFile") =>
    (res.out.hasMore <=> \E i \in NonEmptyPositions : i > ScanEnd)

\* ---- the parser on single lines
IsParse == res.op = "parseLogLine"
\* the value returned is a LogEntry
IsLogEntry(out) == DOMAIN out = {"timestamp", "level", "message", "lineNumber", "raw"}
\* the identifiers for which the default parser runs
DefaultTemplates == {"default", "nginx"}

\* C15: for every template (default, laravel, fastapi, and any unknown
\* identifier) and every non-empty line, parseLogLine does not throw and
\* returns one entry with level in {error, warning, info, debug}, raw equal
\* to the line and lineNumber equal to the argument.
C15_AlwaysOneWellFormedEntry ==
  IsParse =>
    /\ IsLogEntry(res.out)
    /\ res.out.level \in Levels
    /\ res.out.raw = res.line
    /\ res.out.lineNumber = res.lineNumber

\* C16: with the default template a line that begins with a timestamp with
\* comma-separated milliseconds gets the whole prefix, milliseconds
\* included, as timestamp and the rest, trimmed, as message.
C16_CommaMillisecondsInTimestamp ==
  (IsParse /\ res.template \in DefaultTemplates
     /\ At(res.line, 1) \in SpaceStamps /\ At(res.line, 2) \in CommaFraction) =>
    /\ res.out.timestamp = SubSeq(res.line, 1, 2)
    /\ res.out.message = trim(From(res.line, 3))

\* the line contains one of the words, case-insensitively
ContainsAny(line, words) == \E w \in words : includes(line, w)
\* the first character of the line that is not a blank starts #<digits>
IsStackFrame(line) ==
  \/ At(line, 1) \in FrameMarks
  \/ At(line, 1) \in Whitespace /\ At(line, 2) \in FrameMarks

\* C17: with the default template the level depends only on the words the
\* whole line contains, case-insensitively: error, exception, fatal or
\* critical give error; else warn gives warning; else debug or trace give
\* debug; else info; whether a timestamp was matched or not.
C17_DefaultLevelByKeywordPriority ==
  (IsParse /\ res.template \in DefaultTemplates) =>
    res.out.level =
      (IF ContainsAny(res.line, {"error", "exception", "fatal", "critical"})
       THEN "error"
       ELSE IF ContainsAny(res.line, {"warn"}) THEN "warning"
       ELSE IF ContainsAny(res.line, {"debug", "trace"}) THEN "debug"
       ELSE "info")

\* a line with a matched timestamp that contains warn and error
C17_Witness ==
  /\ IsParse /\ res.template = "default"
  /\ res.out.timestamp # undefined
  /\ ContainsAny(res.line, {"warn"}) /\ ContainsAny(res.line, {"error"})
  /\ res.out.level = "error"

\* the line is valid JSON between braces
IsJson(line) ==
  At(line, 1) = "{" /\ At(line, Len(line)) = "}" /\ JSONparse(line) # SyntaxError
\* the line matches none of the structured patterns of the template
Unparseable(template, line) ==
  CASE template = "laravel" -> laravelPattern(line) = <<0, 0>>
    [] template = "fastapi" ->
         /\ uvicornSimple(line) = 0 /\ pythonLogging(line) = <<0, 0>>
         /\ ~IsJson(line)
    [] OTHER -> At(line, 1) \notin SpaceStamps \cup IsoStamps \cup SyslogStamps

\* C18 (as stated): for every template, a line that matches none of the
\* template's structured patterns is returned as an entry with level info,
\* message equal to the full raw line, and raw intact.
C18_UnparseableIsInfo ==
  (IsParse /\ res.template \in LogTemplate /\ Unparseable(res.template, res.line)) =>
    /\ IsLogEntry(res.out)
    /\ res.out.level = "info"
    /\ res.out.message = res.line
    /\ res.out.raw = res.line

\* the level of the keyword heuristic each template applies to a line
\* that matched no structured pattern
KeywordLevel(template, line) ==
  CASE template = "laravel" ->
         IF ContainsAny(line, {"exception", "error", "fatal"}) \/ IsStackFrame(line)
         THEN "error" ELSE "info"
    [] template = "fastapi" ->
         IF ContainsAny(line, {"error", "exception", "traceback"}) THEN "error"
         ELSE IF ContainsAny(line, {"warning"}) THEN "warning"
         ELSE IF ContainsAny(line, {"debug"}) THEN "debug"
         ELSE "info"
    [] OTHER ->
         IF ContainsAny(line, {"error", "exception", "fatal", "critical"}) THEN "error"
         ELSE IF ContainsAny(line, {"warn"}) THEN "warning"
         ELSE IF ContainsAny(line, {"debug", "trace"}) THEN "debug"
         ELSE "info"

\* C18 (amended): for each of the three templates, a line that matches
\* none of the template's structured patterns is returned as one entry
\* with timestamp null, message equal to the full raw line, raw intact,
\* and the level of the template's keyword heuristic on the whole line,
\* which is info when the line has none of the template's keywords.
C18_UnparseableKeepsLineLevelByKeywords ==
  (IsParse /\ res.template \in LogTemplate /\ Unparseable(res.template, res.line)) =>
    /\ IsLogEntry(res.out)
    /\ res.out.timestamp = undefined
    /\ res.out.message = res.line
    /\ res.out.raw = res.line
    /\ res.out.level = KeywordLevel(res.template, res.line)

\* braces around text that is not JSON, the text an error keyword
C18_Witness ==
  /\ IsParse /\ res.template = "fastapi"
  /\ res.line = <<"{", "ERROR", "}">>
  /\ res.out.level = "error" /\ res.out.message = res.line

\* the line has the form [timestamp] env.LEVEL: message
IsLaravelLine(line) ==
  /\ At(line, 1) = "[" /\ At(line, 2) \in SpaceStamps /\ At(line, 3) = "]"
  /\ At(line, 4) \in Whitespace /\ At(line, 5) \in Words /\ At(line, 6) = "."
  /\ At(line, 7) \in Words /\ At(line, 8) = ":"
\* the text from position i on, after the blanks there
AfterBlanks(line, i) ==
  IF At(line, i) \in Whitespace THEN From(line, i + 1) ELSE From(line, i)

\* C19: with the laravel template a line [timestamp] env.LEVEL: message
\* yields that timestamp, that message and a level from the LEVEL token
\* alone, case-insensitively: emergency, alert, critical, error give
\* error; warning gives warning; notice, info give info; debug gives
\* debug; any other token gives info.
C19_LaravelLevelFromToken ==
  (IsParse /\ res.template = "laravel" /\ IsLaravelLine(res.line)) =>
    /\ res.out.timestamp = <<res.line[2]>>
    /\ res.out.message = AfterBlanks(res.line, 9)
    /\ res.out.level =
         (LET token == toLowerCase(res.line[7])
          IN IF token \in {"emergency", "alert", "critical", "error"} THEN "error"
             ELSE IF token = "warning" THEN "warning"
             ELSE IF token = "debug" THEN "debug"
             ELSE "info")

\* the token is CRITICAL and the message has the keywords debug and warning
C19_Witness ==
  /\ IsParse /\ res.template = "laravel" /\ IsLaravelLine(res.line)
  /\ res.line[7] = "CRITICAL"
  /\ res.out.message = <<"debug", " ", "warning">>
  /\ res.out.level = "error"

PyLevels == {"info", "warning", "error", "debug", "critical"}
\* the line has the form LEVEL:<blanks>message
IsUvicornLine(line) ==
  /\ toLowerCase(At(line, 1)) \in PyLevels
  /\ At(line, 2) = ":" /\ At(line, 3) \in Whitespace
\* the line has the form stamp,mmm - logger - LEVEL - message, the logger
\* name being name.name
IsPythonLine(line) ==
  /\ Len(line) >= 15
  /\ line[1] \in SpaceStamps /\ line[2] \in CommaFraction
  /\ SubSeq(line, 3, 5) = <<" ", "-", " ">>
  /\ line[6] \in Words /\ line[7] = "." /\ line[8] \in Words
  /\ SubSeq(line, 9, 11) = <<" ", "-", " ">>
  /\ toLowerCase(line[12]) \in PyLevels
  /\ SubSeq(line, 13, 15) = <<" ", "-", " ">>
\* the level of a LEVEL token of the uvicorn and Python-logging forms
TokenLevel(token) ==
  IF token \in {"error", "critical"} THEN "error"
  ELSE IF token = "warning" THEN "warning"
  ELSE IF token = "debug" THEN "debug"
  ELSE "info"

\* C20: with the fastapi template the first branch that succeeds decides
\* the entry alone: a line LEVEL:<blanks>message gets timestamp null, the
\* text after the colon and blanks as message and its level from the LEVEL
\* token only; a Python-logging line, which is tried next, gets its
\* timestamp, its message and its level from its LEVEL token only;
\* whatever keywords the rest of the line contains.
C20_FirstBranchDecidesAlone ==
  (IsParse /\ res.template = "fastapi") =>
    /\ IsUvicornLine(res.line) =>
         /\ res.out.timestamp = undefined
         /\ res.out.message = From(res.line, 4)
         /\ res.out.level = TokenLevel(toLowerCase(res.line[1]))
    /\ IsPythonLine(res.line) =>
         /\ res.out.timestamp = SubSeq(res.line, 1, 2)
         /\ res.out.message = From(res.line, 16)
         /\ res.out.level = TokenLevel(toLowerCase(res.line[12]))

\* INFO: followed by a message with the keywords warn and error
C20_Witness ==
  /\ IsParse /\ res.template = "fastapi"
  /\ res.line = <<"INFO", ":", " ", "warn", " ", "error">>
  /\ res.out.level = "info" /\ res.out.timestamp = undefined
  /\ res.out.message = <<"warn", " ", "error">>

\* the JSON branch runs on the line and fails: the text between the braces
\* is not JSON, or the level it gives is a number, which has no toLowerCase
JsonBranchFails(line) ==
  /\ At(line, 1) = "{" /\ At(line, Len(line)) = "}"
  /\ \/ JSONparse(line) = SyntaxError
     \/ Or4(Get(JSONparse(line), "level"), Get(JSONparse(line), "levelname"),
            "", "") \in JsonNumbers

\* C21: with the fastapi template, when the JSON branch fails on a line
\* between braces (invalid JSON, or an exception while the fields are
\* extracted, such as a level that is not a string), the entry is as if the
\* branch had not run: timestamp null, message equal to the raw line, and
\* the level of the substring fallback.
C21_FailedJsonLeavesNoTrace ==
  (IsParse /\ res.template = "fastapi" /\ JsonBranchFails(res.line)) =>
    /\ IsLogEntry(res.out)
    /\ res.out.timestamp = undefined
    /\ res.out.message = res.line
    /\ res.out.level = KeywordLevel("fastapi", res.line)

\* ---- the filters, stated on the lines of the file
IsRead == res.op \in {"readLogFile", "readLogFileFromEnd"}
\* the entry the template makes of the line at position i
EntryAt(i) == parseLogLine(FileLines[i], i, res.o.template)
LevelOk(i) == res.o.level = "all" \/ EntryAt(i).level = res.o.level
\* the search text occurs in the raw line, case-insensitively
SearchOk(i) ==
  res.o.search = undefined \/ includes(FileLines[i], toLowerCase(res.o.search[1]))
\* the timestamp of the entry is a date
HasDate(i) ==
  EntryAt(i).timestamp # undefined /\ NewDate(EntryAt(i).timestamp) # InvalidDate
BeforeStart(i) ==
  /\ res.o.startDate # undefined /\ HasDate(i)
  /\ NewDate(EntryAt(i).timestamp)[1] < NewDate(res.o.startDate)[1]
AfterEnd(i) ==
  /\ res.o.endDate # undefined /\ HasDate(i)
  /\ NewDate(EntryAt(i).timestamp)[1] > NewDate(res.o.endDate)[1]
\* the range of the read, its budget, and the line numbers it returned
Range == IF IsEndRead THEN BelowCursor ELSE FromStart
Budget == IF IsEndRead THEN res.o.limit ELSE res.o.maxLines
Returned == LineNumbersOf(res.out.entries)
\* the positions the scan went over: the whole range if the budget was not
\* used up, else the range up to the entry at which it was
Scanned ==
  IF Budget = 0 THEN {}
  ELSE IF Len(res.out.entries) < Budget THEN Range
  ELSE IF IsEndRead THEN {i \in Range : \A j \in Returned : j <= i \/ i \in Returned}
  ELSE {i \in Range : \A j \in Returned : i <= j \/ i \in Returned}

\* ---- the date range, stated on the timestamp an entry carries
IsFilter == res.op = "filter"
\* the timestamp names a calendar date and time of day, whatever follows it
NamesDate(ts) == ts # undefined /\ ts[1] \in SpaceStamps \cup IsoStamps
\* that date and time, in hours
DateOf(ts) == StampHours(ts[1])
\* the level and search statements let the entry through
LevelAndSearchPass ==
  /\ (res.o.level = "all" \/ res.entry.level = res.o.level)
  /\ (res.o.search = undefined \/ includes(res.line, toLowerCase(res.o.search[1])))

\* C22: an entry whose timestamp is null passes the date-range filter
\* whatever startDate and endDate are, and an entry with a timestamp whose
\* date is before startDate or after endDate is rejected.
C22_DateRangeRejectsOutsideDates ==
  IsFilter =>
    /\ res.entry.timestamp = undefined => (res.kept <=> LevelAndSearchPass)
    /\ (/\ NamesDate(res.entry.timestamp)
        /\ \/ /\ res.o.startDate # undefined
              /\ DateOf(res.entry.timestamp) < StampHours(res.o.startDate[1])
           \/ /\ res.o.endDate # undefined
              /\ DateOf(res.entry.timestamp) > StampHours(res.o.endDate[1]))
       => ~res.kept

\* C23: in both read modes a line is returned iff its parsed level equals
\* the level filter or the filter is all, the search text occurs in the raw
\* line case-insensitively (also in a part that parsing stripped, such as
\* the timestamp), and the date range does not reject it.
C23_SearchOnRawLineLevelExact ==
  (Readable /\ IsRead) =>
    \A i \in NonEmptyPositions \cap Scanned :
       i \in Returned <=>
         (LevelOk(i) /\ SearchOk(i) /\ ~BeforeStart(i) /\ ~AfterEnd(i))

\* the search text is in the timestamp only, which the default template
\* strips from the message, and the level filter is error
C23_Witness ==
  /\ Readable /\ IsRead /\ res.o.search = <<"2024-12-10">>
  /\ res.o.level = "error" /\ res.o.template = "default"
  /\ \E k \in DOMAIN res.out.entries :
       /\ res.out.entries[k].message = <<"ERROR">>
       /\ res.out.entries[k].timestamp = <<"2024-12-10 08:00:01">>
  /\ \E i \in NonEmptyPositions \cap Scanned : i \notin Returned

\* ---- the load-older sequence on an unchanged file
\* the result is that of a follow-up call: beforeLine is the
\* oldestLineLoaded of the page before, which had hasMore = true
IsFollowUp == IsEndRead /\ Len(pages) >= 2
\* the oldestLineLoaded of the page before, which the call was given
PreviousOldest == res.o.beforeLine[1]

\* C26: for limit >= 1, over the calls of a load-older sequence on a file
\* oldestLineLoaded strictly decreases from one non-empty page to the next
\* and an empty page has hasMore = false, so the sequence ends: it never
\* has more calls than the file has non-empty lines.
C26_LoadOlderTerminates ==
  /\ (IsEndRead /\ res.out.entries = <<>>) => ~res.out.hasMore
  /\ (IsFollowUp /\ res.out.entries # <<>>) =>
       /\ res.out.oldestLineLoaded < PreviousOldest
       /\ res.out.oldestLineLoaded >= 1
  /\ (IsEndRead /\ pages # <<>>) => Len(pages) <= Max(1, NonEmptyCount)

\* the third call of a sequence with limit 1 on a file of three lines
\* reaches line 1 and hasMore = false
C26_Witness ==
  /\ IsFollowUp /\ Len(pages) = 3 /\ res.o.limit = 1
  /\ res.out.oldestLineLoaded = 1 /\ ~res.out.hasMore
  /\ NonEmptyCount = 3

\* no filter is set
NoFilters ==
  /\ res.o.level = "all" /\ res.o.search = undefined
  /\ res.o.startDate = undefined /\ res.o.endDate = undefined

\* C27 (as stated): whenever readLogFileFromEnd returned hasMore = true,
\* the follow-up call with the same filters on the unchanged file and
\* beforeLine = oldestLineLoaded returns at least one entry, for every
\* filter combination.
C27_FollowUpNeverEmpty ==
  IsFollowUp => res.out.entries # <<>>

\* C27 (amended): the follow-up call after hasMore = true returns at least
\* one entry iff a filter-matching non-empty line lies below
\* oldestLineLoaded, which is always so when no filter is set; when it
\* returns none, it returns hasMore = false.
C27_FollowUpEmptyOnlyUnderFilters ==
  IsFollowUp =>
    /\ res.out.entries # <<>> <=> MatchingIn(BelowCursor) # {}
    /\ NoFilters => res.out.entries # <<>>
    /\ res.out.entries = <<>> => ~res.out.hasMore

\* without filters, limit 1: the follow-up page below line 3 holds line 2
C27_Witness ==
  /\ IsFollowUp /\ NoFilters /\ res.o.limit = 1
  /\ PreviousOldest = 3 /\ LineNumbersOf(res.out.entries) = {2}
  /\ res.out.hasMore

\* ---- the viewer page
\* the lines a list of the page was read from
Ids(ids) == {ids[k] : k \in DOMAIN ids}

\* the user has set a filter
FiltersActive ==
  \/ viewer.filters.level # "all" \/ viewer.filters.search # undefined
  \/ viewer.filters.startDate # undefined \/ viewer.filters.endDate # undefined

\* C24: the entries checkNewLogs returns to a viewer with active filters are
\* restricted by the same search, level and date-range predicates as the
\* window of readLogFileFromEnd: every pending entry passes the viewer's
\* filters.
C24_PendingEntriesPassFilters ==
  (viewer.loaded /\ FiltersActive) =>
    \A k \in DOMAIN viewer.pendingLogs :
      PassesFilters(viewer.pendingLogs[k], viewer.pendingLogs[k].raw, viewer.filters)

\* ---- the load-older protocol
\* the part of the list that came in pages: all but the entries appended
\* from pendingLogs
Paged == SubSeq(viewer.logs, 1, Len(viewer.logs) - viewer.tail)
PagedIds == SubSeq(viewer.shown, 1, Len(viewer.shown) - viewer.tail)

\* line p of the file passes the viewer's filters
ViewerMatches(p) ==
  /\ p \in NonEmptyAt(LinesOfFile(file))
  /\ PassesFilters(parseLogLine(LinesOfFile(file)[p], p, ViewerTemplate),
                   LinesOfFile(file)[p], viewer.filters)

\* C25: in the load-older protocol on a file that only grows by appending,
\* the accumulated list is strictly ascending by lineNumber, holds no line
\* twice, and omits no filter-matching line between its oldest entry and the
\* newest entry of the first page.
C25_PagesAscendingAndGapless ==
  viewer.loaded =>
    /\ \A j, k \in DOMAIN Paged :
         j < k => Paged[j].lineNumber < Paged[k].lineNumber
    /\ \A j, k \in DOMAIN PagedIds : j # k => PagedIds[j] # PagedIds[k]
    /\ \A p \in DOMAIN LinesOfFile(file) :
         (/\ Paged # <<>>
          /\ Paged[1].lineNumber <= p /\ p <= viewer.firstNewest
          /\ ViewerMatches(p))
         => \E k \in DOMAIN Paged :
              /\ Paged[k].lineNumber = p
              /\ Paged[k].raw = LinesOfFile(file)[p]

\* two pages of one line each under the level filter, the file grown by a
\* line between the first page and the older one
C25_Witness ==
  /\ viewer.loaded /\ viewer.limit = 1 /\ viewer.filters.level = "error"
  /\ viewer.tail = 0 /\ Len(viewer.logs) = 2
  /\ viewer.logs[1].lineNumber = 1 /\ viewer.logs[2].lineNumber = 2
  /\ viewer.atLoad # viewer.atOlder
  /\ Cardinality(LinesHeld(file, viewer.generation)) = 3

\* ---- the tail protocol
\* the lines the polls have handed to the page since the first page
Delivered == Ids(viewer.shown) \cup Ids(viewer.pendingIds)

\* C28: in the tail protocol without filters on a file that only grows by
\* appending, every non-empty line appended after the initial load that a
\* poll has seen is delivered, and no line already displayed is delivered
\* again.
C28_AppendedLinesDelivered ==
  (viewer.loaded /\ ~FiltersActive) =>
    /\ (viewer.atPoll \ viewer.atLoad) \subseteq Delivered
    /\ Ids(viewer.pendingIds) \cap Ids(viewer.shown) = {}

\* C29: under every interleaving of the page's callbacks the displayed list
\* never holds the same file line twice.
C29_NoLineShownTwice ==
  \A j, k \in DOMAIN viewer.shown : j # k => viewer.shown[j] # viewer.shown[k]

\* C30: every non-empty line written after the cursor was taken is returned
\* by a poll, also when the file was started anew in between: the lines of
\* a later generation that a poll has seen are delivered.
C30_LinesAfterRotationDelivered ==
  (viewer.loaded /\ viewer.generation > viewer.loadedIn) =>
    {id \in viewer.atPoll : id[1] > viewer.loadedIn} \subseteq Delivered

====
